---- MODULE Spec2Model ----
(***************************************************************************)
(* A model of the chat session of src/src/App.tsx: the React state of the  *)
(* App component (messages, input, isSending, isStreaming, selectedModel,  *)
(* nextIdRef), the closure the event handlers see (the state of the last   *)
(* committed render), and the asynchronous function sendMessage, cut at    *)
(* its three await points (fetch, response.text(), reader.read()).         *)
(*                                                                         *)
(* Text is a sequence of units.  A unit is one character, written as a     *)
(* one-character string, except for the units named below that stand for a *)
(* fixed run of letters ("choices", "delta", "content", "null") or for one *)
(* byte or character outside ASCII ("xC3", "xA9", "U+00E9", "U+FFFD").      *)
(***************************************************************************)
EXTENDS Naturals, Sequences, FiniteSets, TLC

(* ------------------------------------------------------------------ *)
(* Bounds of the model.                                                *)
(* ------------------------------------------------------------------ *)

\* The largest id nextIdRef hands out.
MaxId == 7

\* Largest chunk reader.read() delivers, short of "all that is left".
MaxChunk == 3

(* ------------------------------------------------------------------ *)
(* Units.                                                              *)
(* ------------------------------------------------------------------ *)

NL == "\n"
Q == "\""

\* The whitespace units of the alphabet: what \s and String.trim remove.
WS == {" ", "\t"}

\* The two bytes of U+00E9 in UTF-8, and the characters the decoder emits.
LeadByte == "xC3"
ContByte == "xA9"
EAcute == "U+00E9"
Replacement == "U+FFFD"

DataPrefix == <<"d", "a", "t", "a", ":">>
Sentinel == <<"[", "D", "O", "N", "E", "]">>

Min(S) == CHOOSE m \in S : \A n \in S : m <= n

(* ------------------------------------------------------------------ *)
(* String.prototype.trim, startsWith, split, replace(/^data:\s*/, '').  *)
(* ------------------------------------------------------------------ *)

\* Trim that removes nothing.
TrimNothing(s) == s

\* input.trim(): whitespace removed at both ends.
Trim(s) ==
    LET I == {i \in 1..Len(s) : s[i] \notin WS}
    IN  IF I = {} THEN <<>>
        ELSE SubSeq(s, Min(I), CHOOSE m \in I : \A n \in I : n <= m)

\* line.startsWith(p)
StartsWith(s, p) == Len(s) >= Len(p) /\ SubSeq(s, 1, Len(p)) = p

\* s.split(sep) for a non-empty separator: the leftmost occurrences, not
\* overlapping; a string without the separator is its own single part.
RECURSIVE Split(_, _)
Split(s, sep) ==
    LET I == {i \in 1..(Len(s) + 1 - Len(sep)) : SubSeq(s, i, i + Len(sep) - 1) = sep}
    IN  IF I = {} THEN <<s>>
        ELSE <<SubSeq(s, 1, Min(I) - 1)>>
                 \o Split(SubSeq(s, Min(I) + Len(sep), Len(s)), sep)

\* line.replace(/^data:\s*/, ''), for a line that starts with "data:":
\* the prefix goes, and with it every whitespace unit that follows it.
StripData(line) ==
    LET rest == SubSeq(line, Len(DataPrefix) + 1, Len(line))
        I == {i \in 1..Len(rest) : rest[i] \notin WS}
    IN  IF I = {} THEN <<>> ELSE SubSeq(rest, Min(I), Len(rest))

(* ------------------------------------------------------------------ *)
(* new TextDecoder('utf-8') and decoder.decode(value, {stream: true}).  *)
(* The decoder keeps the bytes of an unfinished character between      *)
(* calls; a byte that cannot continue or start a character becomes     *)
(* U+FFFD.                                                             *)
(* ------------------------------------------------------------------ *)

\* One byte through the decoder: the characters it emits and the bytes
\* it keeps.
DecodeByte(keep, b) ==
    IF keep = <<>>
    THEN IF b = LeadByte THEN [out |-> <<>>, keep |-> <<b>>]
         ELSE IF b = ContByte THEN [out |-> <<Replacement>>, keep |-> <<>>]
         ELSE [out |-> <<b>>, keep |-> <<>>]
    ELSE IF b = ContByte THEN [out |-> <<EAcute>>, keep |-> <<>>]
         ELSE IF b = LeadByte THEN [out |-> <<Replacement>>, keep |-> <<b>>]
         ELSE [out |-> <<Replacement, b>>, keep |-> <<>>]

\* The concatenation of outs[lo..hi].
RECURSIVE Concat(_, _, _)
Concat(outs, lo, hi) ==
    IF lo > hi THEN <<>>
    ELSE IF lo = hi THEN outs[lo]
    ELSE LET mid == (lo + hi) \div 2
         IN  Concat(outs, lo, mid) \o Concat(outs, mid + 1, hi)

\* decoder.decode(bytes, {stream: true}) for a decoder that kept keep:
\* each byte goes through the decoder after the bytes before it, and
\* what the decoder keeps after a byte is that byte or nothing.
Decode(kept, bytes) ==
    LET before(i) == IF i = 1 THEN kept ELSE DecodeByte(<<>>, bytes[i - 1]).keep
        one == [i \in 1..Len(bytes) |-> DecodeByte(before(i), bytes[i])]
    IN  [out |-> Concat([i \in 1..Len(bytes) |-> one[i].out], 1, Len(bytes)),
         keep |-> IF bytes = <<>> THEN kept ELSE one[Len(bytes)].keep]

(* ------------------------------------------------------------------ *)
(* JSON.parse, for the JSON made of objects, arrays, strings without   *)
(* escapes and null.  A value is a record tagged by t.                 *)
(* ------------------------------------------------------------------ *)

JsonWS == {" ", "\t"}
Undefined == [t |-> "undefined"]
Failed == [ok |-> FALSE, v |-> Undefined, next |-> 0]

RECURSIVE SkipWs(_, _)
SkipWs(s, i) == IF i <= Len(s) /\ s[i] \in JsonWS THEN SkipWs(s, i + 1) ELSE i

\* A string literal starting at the quote s[i].
ParseString(s, i) ==
    LET J == {j \in (i + 1)..Len(s) : s[j] = Q}
    IN  IF J = {} THEN Failed
        ELSE IF \E k \in (i + 1)..(Min(J) - 1) : s[k] = "\t" THEN Failed
        ELSE [ok |-> TRUE, v |-> [t |-> "string", s |-> SubSeq(s, i + 1, Min(J) - 1)],
              next |-> Min(J) + 1]

Pop(st) == SubSeq(st, 1, Len(st) - 1)

\* A configuration of the parser: the place i in the text, the values
\* under construction in st (the innermost last: an object with the
\* members read and the name k of the member being read, or an array
\* with the elements read), and what is expected next (mode): a value,
\* the first value of an array or "]", the first name of an object or
\* "}", a name, the colon, or what follows the value v just read.
Config(i, st, mode, v) == [i |-> i, st |-> st, mode |-> mode, v |-> v]
Reject == Config(0, <<>>, "error", Undefined)

\* The parser read the string literal str (or failed to) as a value.
StepString(c, str) ==
    IF str.ok THEN Config(str.next, c.st, "after", str.v) ELSE Reject

\* The parser expects a value at s[i].
StepValue(s, i, c) ==
    CASE s[i] = Q -> StepString(c, ParseString(s, i))
      [] s[i] = "null" -> Config(i + 1, c.st, "after", [t |-> "null"])
      [] s[i] = "{" ->
             Config(i + 1, Append(c.st, [t |-> "object", m |-> <<>>, k |-> <<>>]),
                    "first name", c.v)
      [] s[i] = "[" ->
             Config(i + 1, Append(c.st, [t |-> "array", a |-> <<>>]), "first value", c.v)
      [] OTHER -> Reject

\* The parser read the string literal str (or failed to) as a name.
StepNamed(c, str) ==
    IF str.ok THEN Config(str.next, [c.st EXCEPT ![Len(c.st)].k = str.v.s], "colon", c.v)
    ELSE Reject

\* The parser expects the name of a member at s[i].
StepName(s, i, c) == IF s[i] = Q THEN StepNamed(c, ParseString(s, i)) ELSE Reject

\* The value c.v was read into the object on top of c.st.
StepMember(s, i, c) ==
    LET m == Append(c.st[Len(c.st)].m, [k |-> c.st[Len(c.st)].k, v |-> c.v])
    IN  CASE s[i] = "," -> Config(i + 1, [c.st EXCEPT ![Len(c.st)].m = m], "name", c.v)
          [] s[i] = "}" -> Config(i + 1, Pop(c.st), "after", [t |-> "object", m |-> m])
          [] OTHER -> Reject

\* The value c.v was read into the array on top of c.st.
StepElement(s, i, c) ==
    LET a == Append(c.st[Len(c.st)].a, c.v)
    IN  CASE s[i] = "," -> Config(i + 1, [c.st EXCEPT ![Len(c.st)].a = a], "value", c.v)
          [] s[i] = "]" -> Config(i + 1, Pop(c.st), "after", [t |-> "array", a |-> a])
          [] OTHER -> Reject

\* One step of the parser on the text s, with i past the whitespace.
StepAt(s, i, c) ==
    CASE c.mode = "after" /\ c.st = <<>> ->
             IF i > Len(s) THEN Config(i, c.st, "done", c.v) ELSE Reject
      [] c.mode = "after" /\ c.st # <<>> /\ i <= Len(s) ->
             IF c.st[Len(c.st)].t = "object" THEN StepMember(s, i, c)
             ELSE StepElement(s, i, c)
      [] c.mode = "value" /\ i <= Len(s) -> StepValue(s, i, c)
      [] c.mode = "first value" /\ i <= Len(s) ->
             IF s[i] = "]" THEN Config(i + 1, Pop(c.st), "after", [t |-> "array", a |-> <<>>])
             ELSE Config(i, c.st, "value", c.v)
      [] c.mode = "first name" /\ i <= Len(s) ->
             IF s[i] = "}" THEN Config(i + 1, Pop(c.st), "after", [t |-> "object", m |-> <<>>])
             ELSE Config(i, c.st, "name", c.v)
      [] c.mode = "name" /\ i <= Len(s) -> StepName(s, i, c)
      [] c.mode = "colon" /\ i <= Len(s) ->
             IF s[i] = ":" THEN Config(i + 1, c.st, "value", c.v) ELSE Reject
      [] OTHER -> Reject

Step(s, c) == StepAt(s, SkipWs(s, c.i), c)

RECURSIVE Run(_, _)
Run(s, c) == IF c.mode \in {"done", "error"} THEN c ELSE Run(s, Step(s, c))

\* JSON.parse(data): ok is FALSE where JSON.parse throws a SyntaxError.
JSONParse(data) ==
    LET c == Run(data, Config(1, <<>>, "value", Undefined))
    IN  [ok |-> c.mode = "done", v |-> c.v]

\* v?.[key]: undefined unless v is an object with that member (the last
\* of several members of that name, as JSON.parse keeps it).
Get(v, key) ==
    IF v.t # "object" THEN Undefined
    ELSE LET I == {i \in 1..Len(v.m) : v.m[i].k = key}
         IN  IF I = {} THEN Undefined
             ELSE v.m[CHOOSE i \in I : \A j \in I : j <= i].v

\* v?.[0]
First(v) == IF v.t = "array" /\ Len(v.a) > 0 THEN v.a[1] ELSE Undefined

\* json?.choices?.[0]?.delta?.content || '', for a content that is a
\* string, null or absent.
DeltaOf(json) ==
    LET c == Get(Get(First(Get(json, <<"choices">>)), <<"delta">>), <<"content">>)
    IN  IF c.t = "string" THEN c.s ELSE <<>>

(* ------------------------------------------------------------------ *)
(* The values of the program.                                          *)
(* ------------------------------------------------------------------ *)

DefaultModel == "deepseek/deepseek-r1-0528-qwen3-8b:free"
OtherModel == "other/model:free"

\* The ids a click in the model list can select.
Models == {DefaultModel, OtherModel}

\* The text of the greeting and of the apology, each as one unit.
Greeting == <<"greeting">>
Apology == <<"apology">>
UnknownError == "unknown error"

\* The values the user types into the input.
Inputs == {<<" ">>, <<" ", "h", "i", " ">>}

NoId == 0

Message(id, text, role, modelId, errorDetails) ==
    [id |-> id, text |-> text, role |-> role, modelId |-> modelId,
     errorDetails |-> errorDetails]

\* The text of the first message with this id; empty when there is none.
TextOf(msgs, id) ==
    LET I == {i \in 1..Len(msgs) : msgs[i].id = id}
    IN  IF I = {} THEN <<>> ELSE msgs[Min(I)].text

(* ------------------------------------------------------------------ *)
(* What the backend can answer.                                        *)
(* ------------------------------------------------------------------ *)

\* The JSON of a chunk of a completion whose content is c.
DeltaJson(c) ==
    <<"{", Q, "choices", Q, ":", "[", "{", Q, "delta", Q, ":", "{", Q, "content", Q, ":", Q>>
        \o c \o <<Q, "}", "}", "]", "}">>

DataLine(payload) == DataPrefix \o <<" ">> \o payload
Frame(lines) == lines \o <<NL, NL>>
DeltaFrame(c) == Frame(DataLine(DeltaJson(c)))
DoneFrame == Frame(DataLine(Sentinel))

\* "Hi", " there", then the sentinel.
StreamHiThere ==
    DeltaFrame(<<"H", "i">>) \o DeltaFrame(<<" ", "t", "h", "e", "r", "e">>) \o DoneFrame

\* A fragment, the sentinel, and a frame after the sentinel.
StreamAfterDone == DeltaFrame(<<"a">>) \o DoneFrame \o DeltaFrame(<<"b">>)

\* The sentinel and a data line in one frame, then one more frame.
StreamDoneInFrame ==
    Frame(DataLine(Sentinel) \o <<NL>> \o DataLine(DeltaJson(<<"a">>))) \o DeltaFrame(<<"b">>)

\* A two-byte character in the content, and bytes that are no character.
StreamUtf8 ==
    DeltaFrame(<<"c", LeadByte, ContByte>>) \o DeltaFrame(<<ContByte, LeadByte, "z">>)
        \o DoneFrame

\* Lines that carry no fragment between two that do.
StreamMalformed ==
    DeltaFrame(<<"a">>)
        \o Frame(DataLine(<<"n", "o", "t", "-", "j", "s", "o", "n">>))
        \o Frame(<<":", " ", "k", "e", "e", "p">>)
        \o DeltaFrame(<<>>)
        \o Frame(DataLine(<<"{", Q, "choices", Q, ":", "[", "]", "}">>))
        \o Frame(DataLine(<<"{", Q, "choices", Q, ":", "[", "{", Q, "delta", Q, ":", "{",
                            Q, "content", Q, ":", "null", "}", "}", "]", "}">>))
        \o DeltaFrame(<<"b">>)

\* The last frame lacks its blank line.
StreamNoSeparator == DeltaFrame(<<"a">>) \o DataLine(DeltaJson(<<"b">>)) \o <<NL>>

\* The sentinel as the last line, with no line break after it.
StreamNoSeparatorDone == DeltaFrame(<<"a">>) \o DataLine(Sentinel)

\* No blank, two blanks and a tab after "data:", and three line breaks
\* in a row.
StreamSpacing ==
    Frame(DataPrefix \o DeltaJson(<<"a">>))
        \o <<NL>> \o Frame(DataPrefix \o <<" ", " ">> \o DeltaJson(<<" ", "b">>))
        \o Frame(DataPrefix \o <<" ", "\t">> \o Sentinel)

\* The streams of the specification of one send.
AllStreams ==
    {StreamHiThere, StreamAfterDone, StreamDoneInFrame, StreamUtf8, StreamMalformed,
     StreamNoSeparator, StreamNoSeparatorDone, StreamSpacing}

\* The streams of the specification of several sends.
FewStreams == {DeltaFrame(<<"a">>), DoneFrame}

\* A response: status and ok, whether it has a body, the text of an
\* error body, and the bytes of a streamed body.
Response(status, hasBody, text, body) ==
    [ok |-> status \in 200..299, status |-> status, hasBody |-> hasBody, text |-> text,
     body |-> body]

NoResponse == Response(0, FALSE, "", <<>>)

Streamed(streams) == {Response(200, TRUE, "", s) : s \in streams}

Refused == {Response(500, TRUE, "", <<>>), Response(500, TRUE, "rate limited", <<>>),
            Response(204, FALSE, "", <<>>)}

\* A thrown value: whether it is an Error, and its message.
Thrown(isError, message) == [isError |-> isError, message |-> message]

FetchErrors == {Thrown(TRUE, "Failed to fetch")}
ReadErrors == {Thrown(TRUE, "network error")}

(* ------------------------------------------------------------------ *)
(* State.                                                              *)
(* ------------------------------------------------------------------ *)

VARIABLES
    messages,       \* useState: the log
    input,          \* useState: the text of the input
    isSending,      \* useState
    isStreaming,    \* useState
    error,          \* useState: only ever set to null
    selectedModel,  \* useState
    nextId,         \* nextIdRef.current
    rendered,       \* the state of the last committed render: what the
                    \* handlers of that render see as messages, input, ...
    pc,             \* where sendMessage waits: idle, fetch, text or read
    botId,          \* sendMessage: botId
    request,        \* sendMessage: the body of the request
    response,       \* sendMessage: response
    wire,           \* the bytes of the body the reader has not delivered
    buffer,         \* sendMessage: buffer
    keep,           \* the bytes the TextDecoder keeps between calls
    menu,           \* the responses the backend can give
    quota,          \* the sends the model still accepts
    outstanding,    \* history: requests issued and not yet finished
    event,          \* history: whether the last step was a call of sendMessage
    ragged,         \* history: a chunk of this request ended inside a frame
    stream,         \* history: all bytes of the body of this request
    outcome,        \* history: how the last request finished
    issued,         \* history: the ids taken from nextIdRef, in order
    done,           \* history: the sentinel was parsed in this request
    doneText,       \* history: the placeholder's text at that moment
    applied         \* history: the fragments of this request, one per
                    \* setMessages call of the read loop

state == <<messages, input, isSending, isStreaming, error, selectedModel, nextId>>
locals == <<pc, botId, request, response, wire, buffer, keep>>
history == <<outstanding, event, ragged, stream, outcome, issued, done, doneText, applied>>
vars == <<state, rendered, locals, menu, quota, history>>

\* The state a render commits.
Commit(msgs, inp, sending, streaming, model) ==
    [messages |-> msgs, input |-> inp, isSending |-> sending, isStreaming |-> streaming,
     selectedModel |-> model]

NoRequest == [model |-> "", messages |-> <<>>, stream |-> FALSE]

InitWith(responses, sends) ==
    /\ messages = <<Message(1, Greeting, "bot", "undefined", "undefined")>>
    /\ input = <<>>
    /\ isSending = FALSE
    /\ isStreaming = FALSE
    /\ error = "null"
    /\ selectedModel = DefaultModel
    /\ nextId = 2
    /\ rendered = Commit(messages, input, isSending, isStreaming, selectedModel)
    /\ pc = "idle"
    /\ botId = NoId
    /\ request = NoRequest
    /\ response = NoResponse
    /\ wire = <<>>
    /\ buffer = <<>>
    /\ keep = <<>>
    /\ menu = responses
    /\ quota = sends
    /\ outstanding = 0
    /\ event = "other"
    /\ ragged = FALSE
    /\ stream = <<>>
    /\ outcome = "none"
    /\ issued = <<>>
    /\ done = FALSE
    /\ doneText = <<>>
    /\ applied = <<>>

Init == InitWith(Streamed(FewStreams) \cup {Response(500, TRUE, "", <<>>)}, MaxId)

\* One send, every stream.
InitStream == InitWith(Streamed(AllStreams) \cup Refused, 1)

\* Several sends, one stream and one refusal.
InitLive == InitWith(Streamed({DeltaFrame(<<"a">>)}) \cup {Response(500, TRUE, "", <<>>)}, MaxId)

(* ------------------------------------------------------------------ *)
(* The events of the page.  React renders the updates of an event      *)
(* handler before the next event is handled, so each ends with a       *)
(* commit.  The disabled attribute of the input and of the button is   *)
(* not relied on: an event can be delivered in every state.            *)
(* ------------------------------------------------------------------ *)

\* onChange of the input: setInput(e.target.value)
ChangeInput(v) ==
    /\ input' = v
    /\ rendered' = Commit(messages, v, isSending, isStreaming, selectedModel)
    /\ UNCHANGED <<messages, isSending, isStreaming, error, selectedModel, nextId>>
    /\ UNCHANGED <<locals, menu, quota>>
    /\ event' = "other"
    /\ UNCHANGED <<outstanding, ragged, stream, outcome, issued, done, doneText, applied>>

\* onClick of an entry of the model list: setSelectedModel(m.id)
SelectModel(m) ==
    /\ selectedModel' = m
    /\ rendered' = Commit(messages, input, isSending, isStreaming, m)
    /\ UNCHANGED <<messages, input, isSending, isStreaming, error, nextId>>
    /\ UNCHANGED <<locals, menu, quota>>
    /\ event' = "other"
    /\ UNCHANGED <<outstanding, ragged, stream, outcome, issued, done, doneText, applied>>

\* A render of updates made outside an event handler.
Render ==
    /\ rendered # Commit(messages, input, isSending, isStreaming, selectedModel)
    /\ rendered' = Commit(messages, input, isSending, isStreaming, selectedModel)
    /\ UNCHANGED <<state, locals, menu, quota>>
    /\ event' = "other"
    /\ UNCHANGED <<outstanding, ragged, stream, outcome, issued, done, doneText, applied>>

(* ------------------------------------------------------------------ *)
(* sendMessage, up to its first await.                                 *)
(* ------------------------------------------------------------------ *)

\* Accepts without the guard on isSending.
AcceptsWhileSending(inp, sending) == inp # <<>> /\ \E i \in 1..Len(inp) : inp[i] \notin WS

\* The guards of sendMessage on the input and the flag it sees.
Accepts(inp, sending) == Trim(inp) # <<>> /\ ~sending

\* OpenRouterMessages that keeps the roles of the log.
OpenRouterMessagesSameRoles(msgs, trimmed) ==
    [i \in 1..Len(msgs) |-> [role |-> msgs[i].role, content |-> msgs[i].text]]
        \o <<[role |-> "user", content |-> trimmed]>>

\* messages.map(...) followed by the new user entry.
OpenRouterMessages(msgs, trimmed) ==
    [i \in 1..Len(msgs) |->
        [role |-> IF msgs[i].role = "bot" THEN "assistant" ELSE "user",
         content |-> msgs[i].text]]
        \o <<[role |-> "user", content |-> trimmed]>>

\* ModelOf that ignores the selection.
ModelOfDefault(selected) == DefaultModel

\* selectedModel || 'deepseek/deepseek-r1-0528-qwen3-8b:free'
ModelOf(selected) == IF selected # "" THEN selected ELSE DefaultModel

\* Increment that leaves the counter as it was.
IncrementNot(n) == n

\* nextIdRef.current++ leaves the counter one higher.
Increment(n) == n + 1

sendMessage ==
    LET trimmed == Trim(rendered.input)
        id == nextId
        bot == Increment(id)
        model == ModelOf(rendered.selectedModel)
        log == messages \o <<Message(id, trimmed, "user", "undefined", "undefined")>>
                        \o <<Message(bot, <<>>, "bot", model, "undefined")>>
    IN  IF ~Accepts(rendered.input, rendered.isSending)
        THEN /\ event' = "submit"
             /\ UNCHANGED <<state, rendered, locals, menu, quota>>
             /\ UNCHANGED <<outstanding, ragged, stream, outcome, issued, done, doneText, applied>>
        ELSE /\ quota > 0
             /\ nextId + 2 <= MaxId
             /\ quota' = quota - 1
             /\ error' = "null"
             /\ messages' = log
             /\ input' = <<>>
             /\ isSending' = TRUE
             /\ isStreaming' = TRUE
             /\ nextId' = Increment(bot)
             /\ rendered' = Commit(log, <<>>, TRUE, TRUE, selectedModel)
             /\ pc' = "fetch"
             /\ botId' = bot
             /\ request' = [model |-> model,
                            messages |-> OpenRouterMessages(rendered.messages, trimmed),
                            stream |-> TRUE]
             /\ response' = NoResponse
             /\ wire' = <<>>
             /\ buffer' = <<>>
             /\ keep' = <<>>
             /\ outstanding' = outstanding + 1
             /\ event' = "submit"
             /\ ragged' = FALSE
             /\ stream' = <<>>
             /\ outcome' = "none"
             /\ issued' = issued \o <<id, bot>>
             /\ done' = FALSE
             /\ doneText' = <<>>
             /\ applied' = <<>>
             /\ UNCHANGED <<selectedModel, menu>>

\* onClick of the send button
Click == sendMessage

\* onKeyDown of the input
handleKeyDown(key) ==
    IF key = "Enter" THEN sendMessage
    ELSE /\ event' = "other"
         /\ UNCHANGED <<state, rendered, locals, menu, quota>>
         /\ UNCHANGED <<outstanding, ragged, stream, outcome, issued, done, doneText, applied>>

(* ------------------------------------------------------------------ *)
(* sendMessage: the catch and finally blocks.                          *)
(* ------------------------------------------------------------------ *)

\* e instanceof Error ? e.message : <the fallback text>
ErrorMessage(e) == IF e.isError THEN e.message ELSE UnknownError

\* text || `HTTP ${response.status}`
HttpDetail(text, status) == IF text # "" THEN text ELSE "HTTP " \o ToString(status)

\* WithoutId that removes nothing.
WithoutIdKeepsAll(prev, id) == prev

\* WithoutId that filters on the role: every message of the assistant goes.
WithoutBots(prev, id) == SelectSeq(prev, LAMBDA m : m.role # "bot")

\* prev.filter((m) => m.id !== botId)
WithoutId(prev, id) ==
    LET I == {i \in 1..Len(prev) : prev[i].id # id}
        RECURSIVE Pick(_)
        Pick(i) == IF i > Len(prev) THEN <<>>
                   ELSE (IF i \in I THEN <<prev[i]>> ELSE <<>>) \o Pick(i + 1)
    IN  Pick(1)

\* The catch block for the thrown value e, then the finally block.
Catch(e) ==
    /\ isStreaming' = FALSE
    /\ messages' = WithoutId(messages, botId)
                       \o <<Message(nextId, Apology, "bot", "undefined", ErrorMessage(e))>>
    /\ nextId' = Increment(nextId)
    /\ isSending' = FALSE
    /\ pc' = "idle"
    /\ outstanding' = outstanding - 1
    /\ outcome' = "failed"
    /\ event' = "other"
    /\ issued' = Append(issued, nextId)
    /\ UNCHANGED <<input, error, selectedModel, rendered, botId, request, menu, quota>>
    /\ UNCHANGED <<ragged, stream, done, doneText, applied>>

(* ------------------------------------------------------------------ *)
(* sendMessage: await fetch(...) and await response.text().            *)
(* ------------------------------------------------------------------ *)

\* fetch rejects.
FetchRejects(e) ==
    /\ pc = "fetch"
    /\ Catch(e)
    /\ UNCHANGED <<response, wire, buffer, keep>>

\* fetch resolves to the response r.
FetchResolves(r) ==
    /\ pc = "fetch"
    /\ response' = r
    /\ IF ~r.ok \/ ~r.hasBody
       THEN /\ pc' = "text"
            /\ UNCHANGED <<wire, stream>>
       ELSE /\ pc' = "read"
            /\ wire' = r.body
            /\ stream' = r.body
    /\ buffer' = <<>>
    /\ keep' = <<>>
    /\ event' = "other"
    /\ UNCHANGED <<state, rendered, botId, request, menu, quota>>
    /\ UNCHANGED <<outstanding, ragged, outcome, issued, done, doneText, applied>>

\* response.text().catch(() => '') resolves, to the text of the body or,
\* when reading the body fails, to ''; the throw of line 135 follows.
TextSettles(text) ==
    /\ pc = "text"
    /\ Catch(Thrown(TRUE, HttpDetail(text, response.status)))
    /\ UNCHANGED <<response, wire, buffer, keep>>

(* ------------------------------------------------------------------ *)
(* sendMessage: the read loop.                                         *)
(* ------------------------------------------------------------------ *)

\* ApplyDelta that puts the fragment in front of the text.
ApplyDeltaInFront(prev, id, delta) ==
    [i \in 1..Len(prev) |->
        IF prev[i].id = id THEN [prev[i] EXCEPT !.text = delta \o @] ELSE prev[i]]

\* ApplyDelta that appends to every message of the assistant.
ApplyDeltaToBots(prev, id, delta) ==
    [i \in 1..Len(prev) |->
        IF prev[i].role = "bot" THEN [prev[i] EXCEPT !.text = @ \o delta] ELSE prev[i]]

\* prev.map((m) => (m.id === botId ? { ...m, text: m.text + delta } : m))
ApplyDelta(prev, id, delta) ==
    [i \in 1..Len(prev) |->
        IF prev[i].id = id THEN [prev[i] EXCEPT !.text = @ \o delta] ELSE prev[i]]

\* ProcessDelta without the test of delta: setMessages is called for an
\* empty fragment too.
ProcessDeltaAlways(L, delta, id) ==
    [L EXCEPT !.messages = ApplyDelta(@, id, delta), !.applied = Append(@, delta)]

\* if (delta) setMessages(...)
ProcessDelta(L, delta, id) ==
    IF delta # <<>>
    THEN [L EXCEPT !.messages = ApplyDelta(@, id, delta), !.applied = Append(@, delta)]
    ELSE L

\* ProcessJson that treats a payload JSON.parse rejects as a failure of
\* the request: the placeholder is removed.
ProcessJsonFails(L, json, id) ==
    IF json.ok
    THEN (IF DeltaOf(json.v) # <<>>
          THEN [L EXCEPT !.messages = ApplyDelta(@, id, DeltaOf(json.v)),
                         !.applied = Append(@, DeltaOf(json.v))]
          ELSE L)
    ELSE [L EXCEPT !.messages = SelectSeq(@, LAMBDA m : m.id # id)]

\* The try block: json is what JSON.parse made of the payload; where it
\* threw, the catch block ignores the line.
ProcessJson(L, json, id) == IF json.ok THEN ProcessDelta(L, DeltaOf(json.v), id) ELSE L

\* The payload of a data line: the sentinel, or JSON.  L carries the
\* log and the streaming flag as the updates queued so far leave them;
\* brk says that the loop over the lines was left.
ProcessData(L, data, id) ==
    IF data = Sentinel
    THEN [L EXCEPT !.isStreaming = FALSE,
                   !.brk = TRUE,
                   !.doneText = IF L.done THEN @ ELSE TextOf(L.messages, id),
                   !.done = TRUE]
    ELSE ProcessJson(L, JSONParse(data), id)

\* The body of the loop over the lines of a frame, for one line.
ProcessLine(L, line, id) ==
    IF ~StartsWith(line, DataPrefix) THEN L ELSE ProcessData(L, StripData(line), id)

RECURSIVE ProcessLines(_, _, _)

\* After a line: a break leaves the loop over the lines, and only it.
NextLine(L, rest, id) == IF L.brk THEN L ELSE ProcessLines(L, rest, id)

\* for (const line of lines)
ProcessLines(L, lines, id) ==
    IF lines = <<>> THEN L ELSE NextLine(ProcessLine(L, Head(lines), id), Tail(lines), id)

\* for (const part of parts)
RECURSIVE ProcessParts(_, _, _)
ProcessParts(L, parts, id) ==
    IF parts = <<>> THEN L
    ELSE ProcessParts(ProcessLines([L EXCEPT !.brk = FALSE], Split(Head(parts), <<NL>>), id),
                      Tail(parts), id)

\* Retain that drops the tail.
RetainNothing(parts) == <<>>

\* buffer = parts.pop() || ''
Retain(parts) == parts[Len(parts)]

\* const parts = buffer.split('\n\n'); buffer = parts.pop() || ''; and
\* the loop over the parts that are left.
SplitStep(L, parts, id) ==
    [ProcessParts(L, SubSeq(parts, 1, Len(parts) - 1), id) EXCEPT !.buffer = Retain(parts)]

\* buffer += decoder.decode(value, { stream: true })
DecodeStep(L, dec, id) ==
    SplitStep([L EXCEPT !.keep = dec.keep], Split(L.buffer \o dec.out, <<NL, NL>>), id)

\* One turn of the while loop for the chunk value.
ChunkStep(L, value, id) == DecodeStep(L, Decode(L.keep, value), id)

LoopState(msgs, streaming, buf, kept, sawDone, textAtDone, frags) ==
    [messages |-> msgs, isStreaming |-> streaming, buffer |-> buf, keep |-> kept,
     done |-> sawDone, doneText |-> textAtDone, applied |-> frags, brk |-> FALSE]

\* The sizes of the next chunk: up to MaxChunk bytes, or all that is left.
ChunkSizes(left) == {n \in 1..Len(left) : n <= MaxChunk \/ n = Len(left)}

\* The updates the turn of the loop queued, and its locals.
Queued(L) ==
    /\ messages' = L.messages
    /\ isStreaming' = L.isStreaming
    /\ buffer' = L.buffer
    /\ keep' = L.keep
    /\ done' = L.done
    /\ doneText' = L.doneText
    /\ applied' = L.applied
    /\ ragged' = (ragged \/ L.buffer # <<>> \/ L.keep # <<>>)

\* reader.read() resolves with a chunk of n bytes.
ReadChunk(n) ==
    /\ pc = "read"
    /\ n \in ChunkSizes(wire)
    /\ Queued(ChunkStep(LoopState(messages, isStreaming, buffer, keep, done, doneText,
                                  applied),
                        SubSeq(wire, 1, n), botId))
    /\ wire' = SubSeq(wire, n + 1, Len(wire))
    /\ event' = "other"
    /\ UNCHANGED <<input, isSending, error, selectedModel, nextId, rendered>>
    /\ UNCHANGED <<pc, botId, request, response, menu, quota>>
    /\ UNCHANGED <<outstanding, stream, outcome, issued>>

\* ReadDone that parses what is left in the buffer as a last frame.
ReadDoneFlushes ==
    /\ pc = "read"
    /\ wire = <<>>
    /\ messages' = ProcessParts(LoopState(messages, isStreaming, buffer, keep, done,
                                          doneText, applied),
                                <<buffer>>, botId).messages
    /\ isStreaming' = FALSE
    /\ isSending' = FALSE
    /\ pc' = "idle"
    /\ outstanding' = outstanding - 1
    /\ outcome' = "ended"
    /\ event' = "other"
    /\ UNCHANGED <<input, error, selectedModel, nextId, rendered>>
    /\ UNCHANGED <<botId, request, response, wire, buffer, keep, menu, quota>>
    /\ UNCHANGED <<ragged, stream, issued, done, doneText, applied>>

\* ReadDone without line 173: streaming is left as the loop left it.
ReadDoneKeepsStreaming ==
    /\ pc = "read"
    /\ wire = <<>>
    /\ isSending' = FALSE
    /\ pc' = "idle"
    /\ outstanding' = outstanding - 1
    /\ outcome' = "ended"
    /\ event' = "other"
    /\ UNCHANGED <<messages, input, isStreaming, error, selectedModel, nextId, rendered>>
    /\ UNCHANGED <<botId, request, response, wire, buffer, keep, menu, quota>>
    /\ UNCHANGED <<ragged, stream, issued, done, doneText, applied>>

\* ReadDone without the finally block.
ReadDoneKeepsSending ==
    /\ pc = "read"
    /\ wire = <<>>
    /\ isStreaming' = FALSE
    /\ pc' = "idle"
    /\ outstanding' = outstanding - 1
    /\ outcome' = "ended"
    /\ event' = "other"
    /\ UNCHANGED <<messages, input, isSending, error, selectedModel, nextId, rendered>>
    /\ UNCHANGED <<botId, request, response, wire, buffer, keep, menu, quota>>
    /\ UNCHANGED <<ragged, stream, issued, done, doneText, applied>>

\* reader.read() resolves with done: the loop is left, and the finally
\* block follows line 173.
ReadDone ==
    /\ pc = "read"
    /\ wire = <<>>
    /\ isStreaming' = FALSE
    /\ isSending' = FALSE
    /\ pc' = "idle"
    /\ outstanding' = outstanding - 1
    /\ outcome' = "ended"
    /\ event' = "other"
    /\ UNCHANGED <<messages, input, error, selectedModel, nextId, rendered>>
    /\ UNCHANGED <<botId, request, response, wire, buffer, keep, menu, quota>>
    /\ UNCHANGED <<ragged, stream, issued, done, doneText, applied>>

\* reader.read() rejects.
ReadThrows(e) ==
    /\ pc = "read"
    /\ Catch(e)
    /\ UNCHANGED <<response, wire, buffer, keep>>

(* ------------------------------------------------------------------ *)
(* The specifications.                                                 *)
(* ------------------------------------------------------------------ *)

Next ==
    \/ \E v \in Inputs : ChangeInput(v)
    \/ \E m \in Models : SelectModel(m)
    \/ Click
    \/ \E key \in {"Enter", "a"} : handleKeyDown(key)
    \/ Render
    \/ \E e \in FetchErrors : FetchRejects(e)
    \/ \E r \in menu : FetchResolves(r)
    \/ \E text \in {response.text, ""} : TextSettles(text)
    \/ \E n \in 1..Len(wire) : ReadChunk(n)
    \/ ReadDone
    \/ \E e \in ReadErrors : ReadThrows(e)

Spec == Init /\ [][Next]_vars

\* A step of the request in flight: the promise it awaits settles.
Settle ==
    \/ \E e \in FetchErrors : FetchRejects(e)
    \/ \E r \in menu : FetchResolves(r)
    \/ \E text \in {response.text, ""} : TextSettles(text)
    \/ \E e \in ReadErrors : ReadThrows(e)
    \/ ReadDone
    \/ \E n \in 1..Len(wire) : ReadChunk(n)

\* Every promise the request awaits settles, and React renders the
\* updates it has queued.
LiveSpec == InitLive /\ [][Next]_vars /\ WF_vars(Settle) /\ WF_vars(Render)

\* One request: the user types and clicks, and the request runs.
NextStream ==
    \/ \E v \in Inputs : ChangeInput(v)
    \/ Click
    \/ \E e \in FetchErrors : FetchRejects(e)
    \/ \E r \in menu : FetchResolves(r)
    \/ \E text \in {response.text, ""} : TextSettles(text)
    \/ \E n \in 1..Len(wire) : ReadChunk(n)
    \/ ReadDone
    \/ \E e \in ReadErrors : ReadThrows(e)

SpecStream == InitStream /\ [][NextStream]_vars

(* ------------------------------------------------------------------ *)
(* What the claims speak of.                                           *)
(* ------------------------------------------------------------------ *)

HasId(msgs, id) == \E i \in 1..Len(msgs) : msgs[i].id = id

IsPrefix(a, b) == Len(a) <= Len(b) /\ SubSeq(b, 1, Len(a)) = a

\* The fragments, joined.
Flat(frags) == Concat(frags, 1, Len(frags))

\* The bytes of the body delivered so far.
Consumed == SubSeq(stream, 1, Len(stream) - Len(wire))

\* The text of a placeholder after the whole of bytes came as one chunk.
WholeText(bytes) ==
    TextOf(ChunkStep(LoopState(<<Message(NoId, <<>>, "bot", "undefined", "undefined")>>,
                               TRUE, <<>>, <<>>, FALSE, <<>>, <<>>),
                     bytes, NoId).messages,
           NoId)

\* The content fragment a line carries: that of a data line whose
\* payload is JSON with a non-empty choices[0].delta.content.
LineFragment(line) ==
    IF StartsWith(line, DataPrefix) /\ StripData(line) # Sentinel
           /\ JSONParse(StripData(line)).ok
    THEN DeltaOf(JSONParse(StripData(line)).v)
    ELSE <<>>

\* The non-empty fragments of the lines of a frame, in order.
FrameFragments(part) ==
    LET lines == Split(part, <<NL>>)
    IN  SelectSeq([i \in 1..Len(lines) |-> LineFragment(lines[i])], LAMBDA f : f # <<>>)

\* The non-empty fragments of the complete frames in bytes, in order.
Fragments(bytes) ==
    LET parts == Split(Decode(<<>>, bytes).out, <<NL, NL>>)
    IN  Concat([i \in 1..(Len(parts) - 1) |-> FrameFragments(parts[i])], 1, Len(parts) - 1)

(* ------------------------------------------------------------------ *)
(* C1.  Once the sentinel [DONE] has been parsed, the request is done:  *)
(* no further chunk is taken from the reader, and nothing that follows *)
(* the sentinel in the stream is applied to the placeholder.           *)
(* ------------------------------------------------------------------ *)
C1_SentinelEndsRequest ==
    [][/\ (done /\ done') => wire' = wire
       /\ (done' /\ HasId(messages', botId')) => TextOf(messages', botId') = doneText']_vars

(* ------------------------------------------------------------------ *)
(* C2.  However the stream is cut into chunks, the text of the         *)
(* placeholder when the read loop has ended is the text the stream     *)
(* gives when it comes as one chunk.                                   *)
(* ------------------------------------------------------------------ *)
C2_ChunkingIndependent ==
    outcome = "ended" => TextOf(messages, botId) = WholeText(stream)

\* A request ended whose stream was cut inside a frame and carried text.
C2_Witness == outcome = "ended" /\ ragged /\ TextOf(messages, botId) # <<>>

(* ------------------------------------------------------------------ *)
(* C7.  While the request streams, the text of the placeholder is the  *)
(* fragments applied so far, joined; these are the first of the        *)
(* non-empty fragments of the complete frames received, in stream      *)
(* order, one update each; "Hi", " there", [DONE] ends with the text   *)
(* "Hi there" and streaming false.                                     *)
(* ------------------------------------------------------------------ *)
C7_TextIsPrefixOfFragments ==
    ((pc = "read" \/ outcome = "ended") /\ HasId(messages, botId)) =>
        /\ IsPrefix(applied, Fragments(Consumed))
        /\ TextOf(messages, botId) = Flat(applied)
        /\ (outcome = "ended" /\ stream = StreamHiThere) =>
               /\ TextOf(messages, botId) = <<"H", "i", " ", "t", "h", "e", "r", "e">>
               /\ ~isStreaming

(* ------------------------------------------------------------------ *)
(* C8.  The text of a message only grows, by appending, and only while *)
(* the request that owns the message is streaming; once streaming is   *)
(* false the text of no message in the log changes.                    *)
(* ------------------------------------------------------------------ *)
C8_TextFrozenAfterStreaming ==
    [][\A i \in 1..Len(messages) : \A j \in 1..Len(messages') :
           messages[i].id = messages'[j].id =>
               /\ IsPrefix(messages[i].text, messages'[j].text)
               /\ messages'[j].text # messages[i].text =>
                      (isStreaming /\ messages[i].id = botId)]_vars

(* ------------------------------------------------------------------ *)
(* C3.  At most one request is outstanding, and a call of sendMessage  *)
(* while a request is in flight changes neither the log, the flags,    *)
(* the input, the id counter nor the request.                          *)
(* ------------------------------------------------------------------ *)
C3_OneRequestAtATime ==
    [][/\ outstanding' <= 1
       /\ (event' = "submit" /\ outstanding > 0) =>
              UNCHANGED <<messages, isSending, isStreaming, input, nextId, outstanding,
                          pc, request>>]_vars

\* sendMessage was just called with a non-blank input while a request
\* was in flight.
C3_Witness == event = "submit" /\ outstanding = 1 /\ pc # "idle" /\ Trim(input) # <<>>

(* ------------------------------------------------------------------ *)
(* C4.  After a request failed, the log holds no message with the id   *)
(* of its placeholder; its last message is the one message the request *)
(* left for the assistant, with the apology as text and a non-empty    *)
(* error detail; streaming is false.                                   *)
(* ------------------------------------------------------------------ *)
C4_FailureReplacesPlaceholder ==
    outcome = "failed" =>
        LET last == messages[Len(messages)]
        IN  /\ ~HasId(messages, botId)
            /\ last.role = "bot"
            /\ last.text = Apology
            /\ last.errorDetails \notin {"", "undefined"}
            /\ Cardinality({i \in 1..Len(messages) : messages[i].id > botId}) = 1
            /\ last.id > botId
            /\ ~isStreaming

\* A request failed after fragments had been applied.
C4_Witness == outcome = "failed" /\ applied # <<>>

(* ------------------------------------------------------------------ *)
(* C5.  A request in flight whose promises all settle is followed by a *)
(* state where sending and streaming are false and sendMessage accepts *)
(* a non-blank input.                                                  *)
(* ------------------------------------------------------------------ *)
C5_RequestCompletes ==
    (outstanding > 0) ~>
        (outstanding = 0 /\ ~isSending /\ ~isStreaming
             /\ Accepts(<<"h", "i">>, rendered.isSending))

\* A request was accepted after an earlier one had failed.
C5_Witness ==
    pc = "fetch" /\ \E i \in 1..Len(messages) : messages[i].errorDetails # "undefined"

(* ------------------------------------------------------------------ *)
(* C6.  While streaming is true the log holds exactly one message with *)
(* the id of the placeholder of the request in flight, and no other    *)
(* message of the log changes.                                         *)
(* ------------------------------------------------------------------ *)
C6_OnePlaceholder ==
    [][/\ isStreaming' =>
              /\ pc' # "idle"
              /\ Cardinality({i \in 1..Len(messages') : messages'[i].id = botId'}) = 1
       /\ isStreaming =>
              \A i \in 1..Len(messages) :
                  messages[i].id # botId => (i <= Len(messages') /\ messages'[i] = messages[i])]_vars

\* A second request streams text while the placeholder of the first is
\* in the log.
C6_Witness ==
    /\ isStreaming
    /\ TextOf(messages, botId) # <<>>
    /\ \E i \in 1..Len(messages) :
           messages[i].modelId # "undefined" /\ messages[i].id # botId

(* ------------------------------------------------------------------ *)
(* C9.  The ids of the log are strictly increasing in log order, each  *)
(* is the greeting's id 1 or an id taken from the counter, and the ids *)
(* taken from the counter are strictly increasing and above 1.         *)
(* ------------------------------------------------------------------ *)
C9_IdsIncrease ==
    /\ \A i, j \in 1..Len(messages) : i < j => messages[i].id < messages[j].id
    /\ \A i, j \in 1..Len(issued) : i < j => issued[i] < issued[j]
    /\ \A k \in 1..Len(issued) : issued[k] > 1
    /\ \A i \in 1..Len(messages) :
           messages[i].id = 1 \/ \E k \in 1..Len(issued) : issued[k] = messages[i].id

\* A request ended well after an earlier one had failed.
C9_Witness ==
    outcome = "ended" /\ \E i \in 1..Len(messages) : messages[i].errorDetails # "undefined"

(* ------------------------------------------------------------------ *)
(* C10.  A call of sendMessage with an input that is empty or all      *)
(* whitespace changes neither the log, the flags, the input, the id    *)
(* counter, the error nor the request.                                 *)
(* ------------------------------------------------------------------ *)
IsBlank(s) == \A i \in 1..Len(s) : s[i] \in WS

C10_BlankSubmitIsNoOp ==
    [][(event' = "submit" /\ IsBlank(input)) =>
           UNCHANGED <<messages, isSending, isStreaming, input, nextId, outstanding, error,
                       pc, request>>]_vars

\* sendMessage was just called, with no request in flight, on an input
\* of whitespace.
C10_Witness == event = "submit" /\ input = <<" ">> /\ ~isSending /\ pc = "idle"

(* ------------------------------------------------------------------ *)
(* C11.  A data line whose payload is neither the sentinel nor JSON,   *)
(* or is JSON without choices[0].delta.content, is skipped: the turn   *)
(* of the loop that meets it stays in the loop and keeps the           *)
(* placeholder, and the fragments of the frames before and after it    *)
(* are applied in stream order.                                        *)
(* ------------------------------------------------------------------ *)
C11_MalformedLinesSkipped ==
    [][(pc = "read" /\ stream = StreamMalformed) =>
           /\ wire' # wire => (pc' = "read" /\ HasId(messages', botId))
           /\ outcome' = "ended" =>
                  /\ HasId(messages', botId)
                  /\ applied' = <<(<<"a">>), (<<"b">>)>>
                  /\ TextOf(messages', botId) = <<"a", "b">>]_vars

\* The stream with the malformed lines ended, cut inside a frame.
C11_Witness == outcome = "ended" /\ stream = StreamMalformed /\ ragged

(* ------------------------------------------------------------------ *)
(* C12.  Shape of a step on the log.  The messages that stay keep      *)
(* their places, their fields and, as a prefix, their text; what is    *)
(* new comes after them.  Removed(i) says that messages[i] is not in   *)
(* the log after the step; Replaced(i) says that it is the placeholder *)
(* of the request in flight, that the request fails in the step and    *)
(* that the failure message is the last of the log after it.           *)
(* ------------------------------------------------------------------ *)
Removed(i) == ~HasId(messages', messages[i].id)

Replaced(i) ==
    /\ pc # "idle"
    /\ messages[i].id = botId
    /\ outcome' = "failed"
    /\ messages'[Len(messages')].text = Apology
    /\ messages'[Len(messages')].errorDetails # "undefined"
    /\ ~HasId(messages, messages'[Len(messages')].id)

StayInPlace ==
    \/ messages' = messages
    \/ \E kept \in {SelectSeq(messages, LAMBDA m : HasId(messages', m.id))} :
           /\ Len(kept) <= Len(messages')
           /\ \A k \in 1..Len(kept) :
                  /\ messages'[k].id = kept[k].id
                  /\ messages'[k].role = kept[k].role
                  /\ messages'[k].modelId = kept[k].modelId
                  /\ messages'[k].errorDetails = kept[k].errorDetails
                  /\ IsPrefix(kept[k].text, messages'[k].text)

\* C12 as stated: the one message a step removes is the placeholder of a
\* request that fails before any content has arrived, replaced by the
\* failure message; the other messages stay in place.
C12_RemovedOnlyWhenEmpty ==
    [][/\ StayInPlace
       /\ messages' # messages =>
              \A i \in 1..Len(messages) :
                  Removed(i) => (Replaced(i) /\ messages[i].text = <<>>)]_vars

\* C12 amended: the one message a step removes is the placeholder of a
\* request that fails, with or without content, replaced by the failure
\* message; the other messages stay in place.
C12_RemovedOnlyOnFailure ==
    [][/\ StayInPlace
       /\ messages' # messages => \A i \in 1..Len(messages) : Removed(i) => Replaced(i)]_vars

\* A second request failed after content had arrived for it.
C12_Witness ==
    /\ outcome = "failed"
    /\ applied # <<>>
    /\ ~HasId(messages, botId)
    /\ Len(messages) > 3

(* ------------------------------------------------------------------ *)
(* C13.  A turn of the read loop that applies fragments appends them,  *)
(* in order, to the text of the message whose id is botId and changes  *)
(* nothing else: the log keeps its length and the order of its ids,    *)
(* and every other message keeps all its fields.                       *)
(* ------------------------------------------------------------------ *)
C13_DeltaTouchesOnlyPlaceholder ==
    [][(pc = "read" /\ pc' = "read" /\ Len(applied') > Len(applied)) =>
           LET new == SubSeq(applied', Len(applied) + 1, Len(applied'))
           IN  /\ Len(messages') = Len(messages)
               /\ \A i \in 1..Len(messages) :
                      IF messages[i].id = botId
                      THEN messages'[i] = [messages[i] EXCEPT !.text = @ \o Flat(new)]
                      ELSE messages'[i] = messages[i]]_vars

\* The second fragment of "Hi", " there" has been applied.
C13_Witness ==
    /\ pc = "read"
    /\ stream = StreamHiThere
    /\ applied = <<(<<"H", "i">>), (<<" ", "t", "h", "e", "r", "e">>)>>
    /\ Len(messages) = 3

(* ------------------------------------------------------------------ *)
(* C14.  For every line of a complete frame delivered so far that      *)
(* begins with "data:", the payload line 155 makes of it is the line   *)
(* without the prefix and without exactly one whitespace character     *)
(* after it, further whitespace staying in the payload; a line that    *)
(* does not begin with "data:" leaves the loop's state as it is.       *)
(* ------------------------------------------------------------------ *)
FrameLines(bytes) ==
    LET parts == Split(Decode(<<>>, bytes).out, <<NL, NL>>)
    IN  UNION {{Split(parts[i], <<NL>>)[j] : j \in 1..Len(Split(parts[i], <<NL>>))} :
                   i \in 1..(Len(parts) - 1)}

C14_PayloadStripsOneWhitespace ==
    \A line \in FrameLines(Consumed) :
        LET rest == SubSeq(line, Len(DataPrefix) + 1, Len(line))
            L == LoopState(messages, isStreaming, buffer, keep, done, doneText, applied)
        IN  IF StartsWith(line, DataPrefix)
            THEN StripData(line) = IF rest # <<>> /\ rest[1] \in WS THEN Tail(rest) ELSE rest
            ELSE ProcessLine(L, line, botId) = L

(* ------------------------------------------------------------------ *)
(* C15.  A call of sendMessage with a non-blank input and sending      *)
(* false is accepted, and an accepted call appends to the log exactly  *)
(* the user message with the trimmed input and then the placeholder    *)
(* with empty text and the selected model, clears the input and has    *)
(* set sending and streaming when it waits for fetch.                  *)
(* ------------------------------------------------------------------ *)
C15_AcceptedSubmitAppendsTwo ==
    [][/\ (event' = "submit" /\ ~IsBlank(input) /\ ~rendered.isSending) =>
              outstanding' = outstanding + 1
       /\ (event' = "submit" /\ outstanding' = outstanding + 1) =>
              /\ ~IsBlank(input)
              /\ Len(messages') = Len(messages) + 2
              /\ SubSeq(messages', 1, Len(messages)) = messages
              /\ messages'[Len(messages) + 1] =
                     Message(nextId, Trim(input), "user", "undefined", "undefined")
              /\ messages'[Len(messages) + 2] =
                     Message(nextId + 1, <<>>, "bot", selectedModel, "undefined")
              /\ input' = <<>>
              /\ isSending' /\ isStreaming'
              /\ rendered'.isSending /\ rendered'.isStreaming
              /\ pc' = "fetch"]_vars

\* A request was accepted for an input with blanks around it, after
\* another model had been selected.
C15_Witness ==
    /\ pc = "fetch"
    /\ selectedModel = OtherModel
    /\ messages[Len(messages)] = Message(botId, <<>>, "bot", OtherModel, "undefined")
    /\ messages[Len(messages) - 1].text = <<"h", "i">>
    /\ request.messages[Len(request.messages)].content = <<"h", "i">>

(* ------------------------------------------------------------------ *)
(* C16.  The request of an accepted call of sendMessage carries the    *)
(* log as it stood when the call was made, in log order, bot as        *)
(* assistant and user as user, then one user entry with the trimmed    *)
(* input, and nothing else (the new placeholder is not in it); its     *)
(* stream is true.                                                     *)
(* ------------------------------------------------------------------ *)
C16_RequestCarriesLog ==
    [][(event' = "submit" /\ outstanding' = outstanding + 1) =>
           /\ Len(request'.messages) = Len(messages) + 1
           /\ \A i \in 1..Len(messages) :
                  /\ request'.messages[i].content = messages[i].text
                  /\ messages[i].role = "bot" => request'.messages[i].role = "assistant"
                  /\ messages[i].role = "user" => request'.messages[i].role = "user"
           /\ request'.messages[Len(messages) + 1] = [role |-> "user", content |-> Trim(input)]
           /\ request'.stream = TRUE]_vars

\* A request in flight carries the failure message of an earlier one.
C16_Witness ==
    /\ pc = "fetch"
    /\ \E i \in 1..Len(request.messages) :
           request.messages[i] = [role |-> "assistant", content |-> Apology]

(* ------------------------------------------------------------------ *)
(* C17.  A frame whose fragment is empty or absent causes no update of *)
(* the log: setMessages is called in the read loop for non-empty       *)
(* fragments only, and a turn of the loop that applies no fragment     *)
(* leaves the log as it is; the text a stream ends with is the text    *)
(* it ends with when frames with empty and with absent content are     *)
(* inserted at any boundary between its frames.                        *)
(* ------------------------------------------------------------------ *)

\* Frames that carry no fragment: content "", content null, no choices.
EmptyFrames ==
    DeltaFrame(<<>>)
        \o Frame(DataLine(<<"{", Q, "choices", Q, ":", "[", "{", Q, "delta", Q, ":", "{",
                            Q, "content", Q, ":", "null", "}", "}", "]", "}">>))
        \o Frame(DataLine(<<"{", Q, "choices", Q, ":", "[", "]", "}">>))

\* The places of bytes where a frame can be inserted: its start and the
\* end of every blank-line separator.
FrameBoundaries(bytes) ==
    {0} \cup {p \in 2..Len(bytes) : bytes[p - 1] = NL /\ bytes[p] = NL}

InsertAt(bytes, p, frames) ==
    SubSeq(bytes, 1, p) \o frames \o SubSeq(bytes, p + 1, Len(bytes))

C17_EmptyFragmentsChangeNothing ==
    [][/\ \A k \in 1..Len(applied') : applied'[k] # <<>>
       /\ (pc = "read" /\ pc' = "read" /\ applied' = applied) => messages' = messages
       /\ (pc = "read" /\ outcome' = "ended") =>
              \A p \in FrameBoundaries(stream) :
                  WholeText(InsertAt(stream, p, EmptyFrames)) = TextOf(messages', botId)]_vars

\* The stream with frames of empty and of absent content ended, having
\* come as one chunk.
C17_Witness ==
    /\ outcome = "ended"
    /\ stream = StreamMalformed
    /\ ~ragged
    /\ TextOf(messages, botId) = <<"a", "b">>

(* ------------------------------------------------------------------ *)
(* C18.  Streaming implies sending, in the state and in every render;  *)
(* the step that raises sending raises streaming with it, and the step *)
(* that lowers sending leaves streaming false.                         *)
(* ------------------------------------------------------------------ *)
C18_StreamingImpliesSending ==
    [][/\ isStreaming => isSending
       /\ isStreaming' => isSending'
       /\ rendered'.isStreaming => rendered'.isSending
       /\ (~isSending /\ isSending') => (isStreaming' /\ ~isStreaming)
       /\ (isSending /\ ~isSending') => ~isStreaming']_vars

\* The sentinel has lowered streaming while the request still runs,
\* and a render has shown it.
C18_Witness ==
    /\ pc = "read"
    /\ done
    /\ isSending /\ ~isStreaming
    /\ rendered.isSending /\ ~rendered.isStreaming

(* ------------------------------------------------------------------ *)
(* C19.  When reader.read() reports the end of the stream, what the    *)
(* buffer holds is dropped unparsed: the step changes no message, the  *)
(* text is the text of the stream up to its last blank-line separator, *)
(* and the request ends without failure with sending and streaming     *)
(* false.  A last delta line or a last [DONE] line without its blank   *)
(* line leaves the text at "a".                                        *)
(* ------------------------------------------------------------------ *)

\* The bytes up to the end of the last blank-line separator.
CompleteFrames(bytes) ==
    SubSeq(bytes, 1, CHOOSE p \in FrameBoundaries(bytes) :
                         \A q \in FrameBoundaries(bytes) : q <= p)

C19_TrailingTextDiscarded ==
    [][(pc = "read" /\ outcome' = "ended") =>
           /\ messages' = messages
           /\ HasId(messages', botId)
           /\ TextOf(messages', botId) = WholeText(CompleteFrames(stream))
           /\ ~isStreaming' /\ ~isSending'
           /\ stream \in {StreamNoSeparator, StreamNoSeparatorDone} =>
                  (buffer # <<>> /\ TextOf(messages', botId) = <<"a">>)
           /\ stream = StreamNoSeparatorDone => ~done]_vars

\* The stream whose last delta lacks its blank line ended with that
\* line in the buffer.
C19_Witness ==
    /\ outcome = "ended"
    /\ stream = StreamNoSeparator
    /\ StartsWith(buffer, DataPrefix)
    /\ TextOf(messages, botId) = <<"a">>

====
